---- MODULE Spec2Model ----
(***************************************************************************)
(* Model of the coin ledger of src/app.py (flip-factory-backend).          *)
(*                                                                         *)
(* The database is two tables: users (one row per account) and             *)
(* pending_redemptions (one row per exchange request).  Every HTTP handler *)
(* runs in its own request thread; each sqlite transaction of a handler is *)
(* one atomic step, and the Python code between two transactions works on  *)
(* the handler's local variables and reads the clock at most, so it is     *)
(* executed together with the transaction that precedes it.                *)
(***************************************************************************)
EXTENDS Integers, Sequences, FiniteSets, TLC

\* ---------------------------------------------------------------- constants
MAX_MONTHLY_COINS == 50000000
COINS_PER_DOLLAR == 1000000
USD_CEILING == 100
EXPIRY_HOURS == 24

\* ------------------------------------------------------------------- bounds
NumProcs == 2
MaxRequests == 3
MaxClock == 25

Procs == 1..NumProcs

\* ------------------------------------------------------------------- inputs
\* A request's user_id is a string, or None when the field is missing.
None == "None"

\* A float: finite values are the rational n/d, "inf" is what a JSON number
\* beyond the double range (1e999) parses to.
Fin(n, d) == [kind |-> "fin", n |-> n, d |-> d]
Inf == [kind |-> "inf", n |-> 1, d |-> 1]
NoUsd == Fin(0, 1)

\* The requests the clients send: <<user_id, coins>> for earn and redeem,
\* <<user_id, usd>> for exchange, user_id for status, id for mark_paid.
EarnInputs ==
    {<<"u1", 75000000>>, <<"u2", 75000000>>, <<"u1", 0>>, <<None, 75000000>>}
RedeemInputs ==
    {<<"u1", 50000000>>, <<"u1", 0>>, <<"", 50000000>>}
ExchangeInputs ==
    {<<"u1", Fin(50, 1)>>, <<"u1", Fin(1, 2000000)>>, <<"u1", Fin(0, 1)>>,
     <<"u1", Fin(200, 1)>>, <<"u1", Inf>>,
     <<None, Fin(1, 2000000)>>, <<"", Fin(50, 1)>>}
StatusInputs == {"u2", None}
IdInputs == {0, 1, 2}
TickHours == {EXPIRY_HOURS, EXPIRY_HOURS + 1}

\* ------------------------------------------------------------------ helpers
\* Python truthiness of the user_id field: None and "" are falsy.
Falsy(user_id) == user_id \in {None, ""}

FloatLeqZero(usd) == usd.kind = "fin" /\ usd.n <= 0
FloatGtCeiling(usd) == usd.kind = "inf" \/ (usd.kind = "fin" /\ usd.n > USD_CEILING * usd.d)
\* int(usd_requested * COINS_PER_DOLLAR): truncation toward zero; int() of an
\* infinite float raises OverflowError.
IntRaises(usd) == usd.kind # "fin"
CoinsRequired(usd) ==
    IF usd.n >= 0 THEN (usd.n * COINS_PER_DOLLAR) \div usd.d
    ELSE 0 - (((0 - usd.n) * COINS_PER_DOLLAR) \div usd.d)

\* strftime("%Y-%m-%d") of a clock reading; the clock counts hours.
Today(clock) == clock \div 24

NoRow == [found |-> FALSE, monthly_coin_earned |-> 0, monthly_coin_redeemed |-> 0]
Snapshot(e, r) == [found |-> TRUE, monthly_coin_earned |-> e, monthly_coin_redeemed |-> r]

\* Rows matched by "WHERE user_id = ?": a NULL parameter matches nothing.
MatchingRows(tbl, user_id) ==
    {i \in DOMAIN tbl : user_id # None /\ tbl[i].user_id = user_id}

\* cursor.fetchone() of SELECT * FROM users WHERE user_id = ?
SelectUser(tbl, user_id) ==
    IF MatchingRows(tbl, user_id) = {} THEN NoRow
    ELSE LET i == CHOOSE j \in MatchingRows(tbl, user_id) : TRUE
         IN Snapshot(tbl[i].monthly_coin_earned, tbl[i].monthly_coin_redeemed)

NewUserRow(user_id, clock) ==
    [user_id |-> user_id, monthly_coin_earned |-> 0,
     monthly_coin_redeemed |-> 0, last_reset |-> Today(clock)]

\* A request and its handler's local variables: pc is the handler's position,
\* user the dict get_or_create_user returned, stamp the time the handler read
\* (a timestamp, a cutoff or a date), resp the answer, created whether
\* get_or_create_user inserted the account row for this request.
IdleProc ==
    [pc |-> "idle", op |-> "none", user_id |-> None, coins |-> 0, usd |-> NoUsd,
     id |-> 0, user |-> NoRow, stamp |-> 0, resp |-> "none", created |-> FALSE]

\* users, pending_redemptions: the two tables, rows in insertion order.
\* csv_log: the rows of redemptions.csv.  now: the wall clock, in hours.
\* proc: the request in flight on each request thread.  response: the last
\* request answered, with the answer it got.  started: requests received.
VARIABLES users, pending_redemptions, csv_log, now, proc, response, started

vars == <<users, pending_redemptions, csv_log, now, proc, response, started>>

Init ==
    /\ users = <<>>
    /\ pending_redemptions = <<>>
    /\ csv_log = <<>>
    /\ now = 0
    /\ proc = [p \in Procs |-> IdleProc]
    /\ response = IdleProc
    /\ started = 0

\* A request thread is free when it serves no request.
Free(p) == proc[p].pc = "idle"
CanStart(p) == Free(p) /\ started < MaxRequests

Answered(r, resp) == [r EXCEPT !.pc = "done", !.resp = resp]

\* Thread p goes on with request r; a request that is answered leaves its
\* thread free.
Proceed(p, r) ==
    IF r.pc = "done"
    THEN proc' = [proc EXCEPT ![p] = IdleProc] /\ response' = r
    ELSE proc' = [proc EXCEPT ![p] = r] /\ UNCHANGED response

\* f"{usd_value:.2f}": the amount rounded to cents.
Cents(usd) == (usd.n * 200 + usd.d) \div (2 * usd.d)

\* UPDATE users SET <column> = <column> + ? WHERE user_id = ?
AddEarned(tbl, user_id, coins) ==
    [i \in DOMAIN tbl |->
        IF i \in MatchingRows(tbl, user_id)
        THEN [tbl[i] EXCEPT !.monthly_coin_earned = @ + coins]
        ELSE tbl[i]]

\* The same UPDATE without its WHERE clause: every account is charged.
AddRedeemedNoWhere(tbl, user_id, coins) ==
    [i \in DOMAIN tbl |-> [tbl[i] EXCEPT !.monthly_coin_redeemed = @ + coins]]

AddRedeemed(tbl, user_id, coins) ==
    [i \in DOMAIN tbl |->
        IF i \in MatchingRows(tbl, user_id)
        THEN [tbl[i] EXCEPT !.monthly_coin_redeemed = @ + coins]
        ELSE tbl[i]]

\* The cap check with >= for >: a redemption that reaches the cap exactly is
\* refused.
CapExceededAtCap(user, coins) ==
    user.monthly_coin_redeemed + coins >= MAX_MONTHLY_COINS

\* The cap check of coin_redeem and coin_exchange.
CapExceeded(user, coins) == user.monthly_coin_redeemed + coins > MAX_MONTHLY_COINS

\* The balance check of coin_exchange.
Insufficient(user, coins) ==
    coins > user.monthly_coin_earned - user.monthly_coin_redeemed

\* The handler's code after get_or_create_user returned `user`, up to its
\* next transaction or its response.
Continue(r, user, clock) ==
    CASE r.op = "earn" -> [r EXCEPT !.pc = "earn_update", !.user = user]
      [] r.op = "redeem" ->
            IF CapExceeded(user, r.coins)
            THEN Answered([r EXCEPT !.user = user], "cap")
            ELSE [r EXCEPT !.pc = "redeem_update", !.user = user]
      [] r.op = "exchange" ->
            IF Insufficient(user, CoinsRequired(r.usd))
            THEN Answered([r EXCEPT !.user = user], "insufficient")
            ELSE IF CapExceeded(user, CoinsRequired(r.usd))
            THEN Answered([r EXCEPT !.user = user], "cap")
            ELSE [r EXCEPT !.pc = "exchange_commit", !.user = user, !.stamp = clock]
      [] OTHER -> Answered([r EXCEPT !.user = user], "ok")

\* ----------------------------------------------------------- request starts
\* Thread p takes request r, which the code before the handler's first
\* transaction has already carried to its first transaction or to its answer.
Begin(p, r) ==
    /\ started' = started + 1
    /\ Proceed(p, r)
    /\ UNCHANGED <<users, pending_redemptions, csv_log, now>>

StartEarn(p, user_id, coins) ==
    /\ CanStart(p)
    /\ LET r == [IdleProc EXCEPT !.op = "earn", !.user_id = user_id, !.coins = coins]
       IN Begin(p, IF Falsy(user_id) \/ coins <= 0
                   THEN Answered(r, "invalid")
                   ELSE [r EXCEPT !.pc = "goc_select"])

StartRedeem(p, user_id, requested_coins) ==
    /\ CanStart(p)
    /\ LET r == [IdleProc EXCEPT !.op = "redeem", !.user_id = user_id,
                                 !.coins = requested_coins]
       IN Begin(p, IF Falsy(user_id) \/ requested_coins <= 0
                   THEN Answered(r, "invalid")
                   ELSE [r EXCEPT !.pc = "goc_select"])

StartExchange(p, user_id, usd_requested) ==
    /\ CanStart(p)
    /\ LET r == [IdleProc EXCEPT !.op = "exchange", !.user_id = user_id,
                                 !.usd = usd_requested]
       IN Begin(p, IF IntRaises(usd_requested)
                   THEN Answered(r, "error")
                   ELSE IF FloatLeqZero(usd_requested) \/ FloatGtCeiling(usd_requested)
                   THEN Answered(r, "invalid")
                   ELSE [r EXCEPT !.pc = "goc_select"])

StartStatus(p, user_id) ==
    /\ CanStart(p)
    /\ LET r == [IdleProc EXCEPT !.op = "status", !.user_id = user_id]
       IN Begin(p, IF Falsy(user_id)
                   THEN Answered(r, "invalid")
                   ELSE [r EXCEPT !.pc = "goc_select"])

StartExpireOld(p) ==
    /\ CanStart(p)
    /\ Begin(p, [IdleProc EXCEPT !.op = "expire_old", !.pc = "expire_update",
                                 !.stamp = now - EXPIRY_HOURS])

StartResetMonthly(p) ==
    /\ CanStart(p)
    /\ Begin(p, [IdleProc EXCEPT !.op = "reset_monthly", !.pc = "reset_update",
                                 !.stamp = Today(now)])

\* -------------------------------------------------------- get_or_create_user
GocSelect(p) ==
    /\ proc[p].pc = "goc_select"
    /\ LET user == SelectUser(users, proc[p].user_id)
       IN Proceed(p, IF user.found THEN Continue(proc[p], user, now)
                     ELSE [proc[p] EXCEPT !.pc = "goc_insert"])
    /\ UNCHANGED <<users, pending_redemptions, csv_log, now, started>>

\* The INSERT fails on the PRIMARY KEY when another request created the row
\* after this request's SELECT; a NULL user_id never collides.
GocInsert(p) ==
    /\ proc[p].pc = "goc_insert"
    /\ IF MatchingRows(users, proc[p].user_id) # {}
       THEN /\ Proceed(p, Answered(proc[p], "error"))
            /\ UNCHANGED users
       ELSE /\ users' = Append(users, NewUserRow(proc[p].user_id, now))
            /\ Proceed(p, Continue([proc[p] EXCEPT !.created = TRUE],
                                   Snapshot(0, 0), now))
    /\ UNCHANGED <<pending_redemptions, csv_log, now, started>>

\* ------------------------------------------------------------- transactions
EarnUpdate(p) ==
    /\ proc[p].pc = "earn_update"
    /\ users' = AddEarned(users, proc[p].user_id, proc[p].coins)
    /\ Proceed(p, Answered(proc[p], "ok"))
    /\ UNCHANGED <<pending_redemptions, csv_log, now, started>>

RedeemUpdate(p) ==
    /\ proc[p].pc = "redeem_update"
    /\ users' = AddRedeemed(users, proc[p].user_id, proc[p].coins)
    /\ Proceed(p, Answered(proc[p], "ok"))
    /\ UNCHANGED <<pending_redemptions, csv_log, now, started>>

\* The record with the amount in cents where the coins belong.
NewRedemptionInCents(id, user_id, usd, stamp) ==
    [id |-> id, user_id |-> user_id, coins_redeemed |-> Cents(usd),
     usd_value |-> usd, requested_at |-> stamp, status |-> "pending"]

NewRedemption(id, user_id, usd, stamp) ==
    [id |-> id, user_id |-> user_id, coins_redeemed |-> CoinsRequired(usd),
     usd_value |-> usd, requested_at |-> stamp, status |-> "pending"]

ExchangeCommit(p) ==
    /\ proc[p].pc = "exchange_commit"
    /\ users' = AddRedeemed(users, proc[p].user_id, CoinsRequired(proc[p].usd))
    /\ pending_redemptions' =
          Append(pending_redemptions,
                 NewRedemption(Len(pending_redemptions) + 1, proc[p].user_id,
                               proc[p].usd, proc[p].stamp))
    /\ Proceed(p, [proc[p] EXCEPT !.pc = "exchange_log"])
    /\ UNCHANGED <<csv_log, now, started>>

CsvRow(clock, user_id, usd) ==
    [timestamp |-> clock, user_id |-> user_id, usd_value |-> Cents(usd),
     coins_redeemed |-> CoinsRequired(usd), status |-> "pending"]

CsvHeader ==
    [timestamp |-> 0, user_id |-> "user_id", usd_value |-> 0,
     coins_redeemed |-> 0, status |-> "status"]

\* log_redemption_csv: the header goes first into a file that does not exist.
ExchangeLog(p) ==
    /\ proc[p].pc = "exchange_log"
    /\ csv_log' = Append(IF csv_log = <<>> THEN <<CsvHeader>> ELSE csv_log,
                         CsvRow(now, proc[p].user_id, proc[p].usd))
    /\ Proceed(p, Answered(proc[p], "ok"))
    /\ UNCHANGED <<users, pending_redemptions, now, started>>

\* open() or the write raises OSError: the handler ends with an unhandled
\* exception after its commit.
ExchangeLogFails(p) ==
    /\ proc[p].pc = "exchange_log"
    /\ Proceed(p, Answered(proc[p], "error"))
    /\ UNCHANGED <<users, pending_redemptions, csv_log, now, started>>

\* The same UPDATE without its WHERE clause: every record is marked paid.
SetPaidNoWhere(tbl, id) ==
    [i \in DOMAIN tbl |-> [tbl[i] EXCEPT !.status = "paid"]]

\* UPDATE pending_redemptions SET status = 'paid' WHERE id = ?
SetPaid(tbl, id) ==
    [i \in DOMAIN tbl |->
        IF tbl[i].id = id THEN [tbl[i] EXCEPT !.status = "paid"] ELSE tbl[i]]

MarkPaid(p, redemption_id) ==
    /\ CanStart(p)
    /\ started' = started + 1
    /\ LET r == [IdleProc EXCEPT !.op = "mark_paid", !.id = redemption_id]
       IN IF redemption_id = 0
          THEN /\ Proceed(p, Answered(r, "invalid"))
               /\ UNCHANGED pending_redemptions
          ELSE /\ pending_redemptions' = SetPaid(pending_redemptions, redemption_id)
               /\ Proceed(p, Answered(r, "ok"))
    /\ UNCHANGED <<users, csv_log, now>>

\* The sweep with <= for <: a record requested at the cutoff expires too.
SetExpiredAtCutoff(tbl, cutoff) ==
    [i \in DOMAIN tbl |->
        IF tbl[i].status = "pending" /\ tbl[i].requested_at <= cutoff
        THEN [tbl[i] EXCEPT !.status = "expired"]
        ELSE tbl[i]]

\* UPDATE ... SET status = 'expired' WHERE status = 'pending' AND requested_at < ?
SetExpired(tbl, cutoff) ==
    [i \in DOMAIN tbl |->
        IF tbl[i].status = "pending" /\ tbl[i].requested_at < cutoff
        THEN [tbl[i] EXCEPT !.status = "expired"]
        ELSE tbl[i]]

\* The sweep that also releases the reservation: the owner of a record that
\* expires gets monthly_coin_redeemed back to 0.
ExpireUpdateRefunds(p) ==
    /\ proc[p].pc = "expire_update"
    /\ pending_redemptions' = SetExpired(pending_redemptions, proc[p].stamp)
    /\ users' =
          [i \in DOMAIN users |->
              IF \E j \in DOMAIN pending_redemptions :
                    /\ pending_redemptions[j].user_id = users[i].user_id
                    /\ pending_redemptions[j].status = "pending"
                    /\ pending_redemptions[j].requested_at < proc[p].stamp
              THEN [users[i] EXCEPT !.monthly_coin_redeemed = 0]
              ELSE users[i]]
    /\ Proceed(p, Answered(proc[p], "ok"))
    /\ UNCHANGED <<csv_log, now, started>>

ExpireUpdate(p) ==
    /\ proc[p].pc = "expire_update"
    /\ pending_redemptions' = SetExpired(pending_redemptions, proc[p].stamp)
    /\ Proceed(p, Answered(proc[p], "ok"))
    /\ UNCHANGED <<users, csv_log, now, started>>

\* The reset that forgets monthly_coin_redeemed.
ResetEarnedOnly(tbl, today) ==
    [i \in DOMAIN tbl |->
        [tbl[i] EXCEPT !.monthly_coin_earned = 0, !.last_reset = today]]

\* UPDATE users SET monthly_coin_earned = 0, monthly_coin_redeemed = 0, last_reset = ?
ResetAll(tbl, today) ==
    [i \in DOMAIN tbl |->
        [tbl[i] EXCEPT !.monthly_coin_earned = 0, !.monthly_coin_redeemed = 0,
                       !.last_reset = today]]

ResetUpdate(p) ==
    /\ proc[p].pc = "reset_update"
    /\ users' = ResetAll(users, proc[p].stamp)
    /\ Proceed(p, Answered(proc[p], "ok"))
    /\ UNCHANGED <<pending_redemptions, csv_log, now, started>>

\* The payload of coin_status for the dict `user` of get_or_create_user.
StatusPayload(user) ==
    [earned |-> user.monthly_coin_earned,
     redeemed |-> user.monthly_coin_redeemed,
     remaining_redeemable_coins |->
        IF MAX_MONTHLY_COINS - user.monthly_coin_redeemed > 0
        THEN MAX_MONTHLY_COINS - user.monthly_coin_redeemed ELSE 0]

\* The wall clock (datetime.utcnow()) advances by `hours`.
Tick(hours) ==
    /\ now + hours <= MaxClock
    /\ now' = now + hours
    /\ UNCHANGED <<users, pending_redemptions, csv_log, proc, response, started>>

\* ------------------------------------------------------------ specifications
Starts ==
    \/ \E p \in Procs, i \in EarnInputs : StartEarn(p, i[1], i[2])
    \/ \E p \in Procs, i \in RedeemInputs : StartRedeem(p, i[1], i[2])
    \/ \E p \in Procs, i \in ExchangeInputs : StartExchange(p, i[1], i[2])
    \/ \E p \in Procs, u \in StatusInputs : StartStatus(p, u)
    \/ \E p \in Procs, i \in IdInputs : MarkPaid(p, i)
    \/ \E p \in Procs : StartExpireOld(p)
    \/ \E p \in Procs : StartResetMonthly(p)

Steps ==
    \/ \E p \in Procs : GocSelect(p)
    \/ \E p \in Procs : GocInsert(p)
    \/ \E p \in Procs : EarnUpdate(p)
    \/ \E p \in Procs : RedeemUpdate(p)
    \/ \E p \in Procs : ExchangeCommit(p)
    \/ \E p \in Procs : ExchangeLog(p)
    \/ \E p \in Procs : ExchangeLogFails(p)
    \/ \E p \in Procs : ExpireUpdate(p)
    \/ \E p \in Procs : ResetUpdate(p)

Time == \E h \in TickHours : Tick(h)

\* Requests of every kind, served concurrently.
Next == Starts \/ Steps \/ Time

Spec == Init /\ [][Next]_vars

\* One request at a time: a request starts when no other is in flight.
AllFree == \A p \in Procs : Free(p)

SerialNext ==
    \/ \E p \in Procs, i \in EarnInputs : AllFree /\ StartEarn(p, i[1], i[2])
    \/ \E p \in Procs, i \in RedeemInputs : AllFree /\ StartRedeem(p, i[1], i[2])
    \/ \E p \in Procs, i \in ExchangeInputs : AllFree /\ StartExchange(p, i[1], i[2])
    \/ \E p \in Procs, u \in StatusInputs : AllFree /\ StartStatus(p, u)
    \/ \E p \in Procs, i \in IdInputs : AllFree /\ MarkPaid(p, i)
    \/ \E p \in Procs : AllFree /\ StartExpireOld(p)
    \/ \E p \in Procs : AllFree /\ StartResetMonthly(p)
    \/ Steps
    \/ Time

SerialSpec == Init /\ [][SerialNext]_vars

\* Concurrent requests of the earn and exchange endpoints only.
EarnExchangeNext ==
    \/ \E p \in Procs, i \in EarnInputs : StartEarn(p, i[1], i[2])
    \/ \E p \in Procs, i \in ExchangeInputs : StartExchange(p, i[1], i[2])
    \/ \E p \in Procs : GocSelect(p)
    \/ \E p \in Procs : GocInsert(p)
    \/ \E p \in Procs : EarnUpdate(p)
    \/ \E p \in Procs : ExchangeCommit(p)
    \/ \E p \in Procs : ExchangeLog(p)
    \/ \E p \in Procs : ExchangeLogFails(p)

EarnExchangeSpec == Init /\ [][EarnExchangeNext]_vars

\* Concurrent requests of the earn, exchange and reset endpoints only.
EarnExchangeResetNext ==
    \/ EarnExchangeNext
    \/ \E p \in Procs : StartResetMonthly(p)
    \/ \E p \in Procs : ResetUpdate(p)

EarnExchangeResetSpec == Init /\ [][EarnExchangeResetNext]_vars

\* The requests that get past the checks made before the first transaction.
EarnReachingDb == {i \in EarnInputs : ~Falsy(i[1]) /\ i[2] > 0}
ExchangeReachingDb ==
    {i \in ExchangeInputs :
        ~IntRaises(i[2]) /\ ~FloatLeqZero(i[2]) /\ ~FloatGtCeiling(i[2])}
IdReachingDb == {i \in IdInputs : i # 0}

\* Concurrent requests of every endpoint that writes, except redeem and reset:
\* those that reach the database, in every interleaving of their steps. The
\* clock moves past the expiry window at a moment when no request is in flight.
NoRedeemNoResetNext ==
    \/ \E p \in Procs, i \in EarnReachingDb : StartEarn(p, i[1], i[2])
    \/ \E p \in Procs, i \in ExchangeReachingDb : StartExchange(p, i[1], i[2])
    \/ \E p \in Procs, i \in IdReachingDb : MarkPaid(p, i)
    \/ \E p \in Procs : StartExpireOld(p)
    \/ \E p \in Procs : GocSelect(p)
    \/ \E p \in Procs : GocInsert(p)
    \/ \E p \in Procs : EarnUpdate(p)
    \/ \E p \in Procs : ExchangeCommit(p)
    \/ \E p \in Procs : ExchangeLog(p)
    \/ \E p \in Procs : ExchangeLogFails(p)
    \/ \E p \in Procs : ExpireUpdate(p)
    \/ AllFree /\ Tick(EXPIRY_HOURS + 1)

NoRedeemNoResetSpec == Init /\ [][NoRedeemNoResetNext]_vars

\* ------------------------------------------------------------------ claims
ValidationErrors == {"invalid", "cap", "insufficient"}

\* C1: in every reachable state, under every interleaving of concurrent
\* requests, every account has 0 <= monthly_coin_redeemed <= MAX_MONTHLY_COINS.
C1_RedeemedWithinCap ==
    \A i \in DOMAIN users :
        /\ 0 <= users[i].monthly_coin_redeemed
        /\ users[i].monthly_coin_redeemed <= MAX_MONTHLY_COINS

\* C2: a redemption record whose status is paid or expired keeps that status
\* in every later step, whatever operation takes the step.
C2_TerminalStatusImmutable ==
    [][\A i \in DOMAIN pending_redemptions :
          pending_redemptions[i].status \in {"paid", "expired"}
          => /\ i \in DOMAIN pending_redemptions'
             /\ pending_redemptions'[i].status = pending_redemptions[i].status]_vars

\* C3: when only earn and exchange requests run, concurrently or not, every
\* account has monthly_coin_redeemed <= monthly_coin_earned in every state.
C3_ExchangeWithinEarned ==
    \A i \in DOMAIN users :
        users[i].monthly_coin_redeemed <= users[i].monthly_coin_earned

RECURSIVE CoinsOfRecords(_, _)
\* Sum of coins_redeemed over the records of tbl that carry user_id.
CoinsOfRecords(tbl, user_id) ==
    IF tbl = <<>> THEN 0
    ELSE (IF Head(tbl).user_id = user_id THEN Head(tbl).coins_redeemed ELSE 0)
         + CoinsOfRecords(Tail(tbl), user_id)

\* C4: the exchanges that commit for one account within a cycle sum to at most
\* MAX_MONTHLY_COINS: of concurrent exchanges of MAX_MONTHLY_COINS / N coins
\* each, those beyond the N-th are rejected and commit no record.
C4_CommittedExchangesWithinCap ==
    \A i \in DOMAIN users :
        CoinsOfRecords(pending_redemptions, users[i].user_id) <= MAX_MONTHLY_COINS

\* C5: a request answered with a validation error (InvalidRequest, CapExceeded
\* or InsufficientBalance) has written nothing: in particular it has created
\* no account row.
C5_RejectedRequestWritesNothing ==
    response.resp \in ValidationErrors => ~response.created

\* Thread p takes the step that commits its exchange.
CommitsExchange(p) ==
    proc[p].pc = "exchange_commit" /\ proc'[p].pc # "exchange_commit"

\* What the step of a committing exchange of thread p does to the tables:
\* one new pending record of floor(usd * COINS_PER_DOLLAR) coins behind the
\* old records, that many coins more on the monthly_coin_redeemed of the one
\* account of the user, and nothing else.
ExchangeEffect(p) ==
    LET user_id == proc[p].user_id
        usd == proc[p].usd
        n == Len(pending_redemptions)
        new == pending_redemptions'[n + 1]
        c == new.coins_redeemed
    IN /\ Len(pending_redemptions') = n + 1
       /\ SubSeq(pending_redemptions', 1, n) = pending_redemptions
       /\ new.user_id = user_id /\ new.status = "pending" /\ new.id = n + 1
       /\ c * usd.d <= usd.n * COINS_PER_DOLLAR
       /\ usd.n * COINS_PER_DOLLAR < (c + 1) * usd.d
       /\ DOMAIN users' = DOMAIN users
       /\ \A i \in DOMAIN users :
             users'[i] = IF user_id # None /\ users[i].user_id = user_id
                         THEN [users[i] EXCEPT !.monthly_coin_redeemed = @ + c]
                         ELSE users[i]
       /\ user_id # None
          => Cardinality({i \in DOMAIN users : users[i].user_id = user_id}) = 1

\* C6: the step that commits an exchange adds coins_required to the account's
\* monthly_coin_redeemed and inserts the one pending record together, changing
\* nothing else; and no step inserts a record without being such a step, so no
\* state shows one effect without the other.
C6_ExchangeCommitsAtomically ==
    [][/\ \A p \in Procs : CommitsExchange(p) => ExchangeEffect(p)
       /\ Len(pending_redemptions') # Len(pending_redemptions)
          => \E p \in Procs : CommitsExchange(p) /\ ExchangeEffect(p)]_vars

\* An exchange of 50 dollars was answered with success, and its record and its
\* 50,000,000 coins are in the tables.
C6_Witness ==
    /\ response.op = "exchange" /\ response.resp = "ok"
    /\ response.usd = Fin(50, 1)
    /\ \E i \in DOMAIN users :
          /\ users[i].user_id = response.user_id
          /\ users[i].monthly_coin_redeemed = 50000000
    /\ \E i \in DOMAIN pending_redemptions :
          /\ pending_redemptions[i].user_id = response.user_id
          /\ pending_redemptions[i].coins_redeemed = 50000000
          /\ pending_redemptions[i].status = "pending"

\* C7: an exchange with usd <= 0 or usd > 100 is answered InvalidRequest and
\* has written nothing.
C7_OutOfRangeUsdIsInvalid ==
    (response.op = "exchange"
     /\ (FloatLeqZero(response.usd) \/ FloatGtCeiling(response.usd)))
    => (response.resp = "invalid" /\ ~response.created)

\* C8: an exchange with a missing user_id is answered InvalidRequest, and no
\* account row and no redemption record carries a missing user_id.
C8_MissingUserIsInvalid ==
    /\ (response.op = "exchange" /\ Falsy(response.user_id))
       => response.resp = "invalid"
    /\ \A i \in DOMAIN users : ~Falsy(users[i].user_id)
    /\ \A i \in DOMAIN pending_redemptions : ~Falsy(pending_redemptions[i].user_id)

\* Thread p takes the step that answers its request.
Answers(p) == proc[p].pc # "idle" /\ proc'[p].pc = "idle"

\* C9: a redeem of requested_coins > 0 served with no other request in flight
\* succeeds exactly when monthly_coin_redeemed + requested_coins <=
\* MAX_MONTHLY_COINS, whatever monthly_coin_earned is; it then adds exactly
\* requested_coins to monthly_coin_redeemed and leaves monthly_coin_earned and
\* the redemption records alone; otherwise it is answered CapExceeded.
C9_RedeemCapOnly ==
    [][\A p \in Procs :
          (proc[p].op = "redeem" /\ Answers(p))
          => LET user_id == proc[p].user_id
                 before == SelectUser(users, user_id)
                 after == SelectUser(users', user_id)
             IN /\ pending_redemptions' = pending_redemptions
                /\ after.monthly_coin_earned = before.monthly_coin_earned
                /\ IF before.monthly_coin_redeemed + proc[p].coins <= MAX_MONTHLY_COINS
                   THEN /\ response'.resp = "ok"
                        /\ after.monthly_coin_redeemed
                              = before.monthly_coin_redeemed + proc[p].coins
                   ELSE /\ response'.resp = "cap"
                        /\ after.monthly_coin_redeemed = before.monthly_coin_redeemed]_vars

\* A redeem succeeded on an account that has earned nothing.
C9_Witness ==
    /\ response.op = "redeem" /\ response.resp = "ok"
    /\ \E i \in DOMAIN users :
          /\ users[i].user_id = response.user_id
          /\ users[i].monthly_coin_earned = 0
          /\ users[i].monthly_coin_redeemed = response.coins

\* C10: an earn with a user_id and coins > 0 always succeeds.
C10_EarnAlwaysSucceeds ==
    (response.op = "earn" /\ ~Falsy(response.user_id) /\ response.coins > 0)
    => response.resp = "ok"

\* C11: the sweep of expire_old with cutoff c turns into expired exactly the
\* records that are pending and requested strictly before c; every other
\* record keeps its status, no other field of a record changes and no account
\* changes.
C11_ExpireExactlyOldPending ==
    [][\A p \in Procs :
          (proc[p].pc = "expire_update" /\ Answers(p))
          => LET cutoff == proc[p].stamp
             IN /\ DOMAIN pending_redemptions' = DOMAIN pending_redemptions
                /\ \A i \in DOMAIN pending_redemptions :
                      LET old == pending_redemptions[i]
                          new == pending_redemptions'[i]
                      IN /\ new.status =
                               IF old.status = "pending" /\ old.requested_at < cutoff
                               THEN "expired" ELSE old.status
                         /\ [new EXCEPT !.status = old.status] = old
                /\ users' = users]_vars

\* A sweep was answered that expired one record and left pending a record
\* requested at its cutoff or later.
C11_Witness ==
    /\ AllFree
    /\ response.op = "expire_old" /\ response.resp = "ok"
    /\ \E i \in DOMAIN pending_redemptions :
          /\ pending_redemptions[i].status = "expired"
          /\ pending_redemptions[i].requested_at < response.stamp
    /\ \E i \in DOMAIN pending_redemptions :
          /\ pending_redemptions[i].status = "pending"
          /\ pending_redemptions[i].requested_at >= response.stamp

\* C12: with one request in flight at a time, the UPDATE of reset_monthly
\* leaves every account with monthly_coin_earned = 0 and
\* monthly_coin_redeemed = 0, creates and deletes no account and changes no
\* redemption record; and a status request reports the counters of the
\* account as they are, so for a reset account earned = 0, redeemed = 0 and
\* remaining_redeemable_coins = MAX_MONTHLY_COINS.
C12_ResetZeroesEveryAccount ==
    [][\A p \in Procs :
          /\ (proc[p].pc = "reset_update" /\ Answers(p))
             => /\ DOMAIN users' = DOMAIN users
                /\ \A i \in DOMAIN users :
                      /\ users'[i].user_id = users[i].user_id
                      /\ users'[i].monthly_coin_earned = 0
                      /\ users'[i].monthly_coin_redeemed = 0
                /\ pending_redemptions' = pending_redemptions
          /\ (proc[p].op = "status" /\ Answers(p))
             => LET row == SelectUser(users', proc[p].user_id)
                    payload == StatusPayload(response'.user)
                IN /\ response'.resp = "ok"
                   /\ payload.earned = row.monthly_coin_earned
                   /\ payload.redeemed = row.monthly_coin_redeemed
                   /\ row.monthly_coin_redeemed = 0
                      => payload.remaining_redeemable_coins = MAX_MONTHLY_COINS]_vars

\* A reset was answered, and an account whose exchange of 50,000,000 coins is
\* on record has both counters at 0.
C12_Witness ==
    /\ AllFree
    /\ response.op = "reset_monthly" /\ response.resp = "ok"
    /\ \E i \in DOMAIN users, j \in DOMAIN pending_redemptions :
          /\ pending_redemptions[j].user_id = users[i].user_id
          /\ pending_redemptions[j].coins_redeemed = 50000000
          /\ users[i].monthly_coin_earned = 0
          /\ users[i].monthly_coin_redeemed = 0

\* The step is a mark_paid request: the one request that starts, is answered
\* at once and is recorded as mark_paid.
MarkPaidStep ==
    started' # started /\ response'.op = "mark_paid" /\ UNCHANGED proc

\* C13: mark_paid with an id that matches no record reports success and
\* changes no record and no account.
C13_MarkPaidUnknownIdNoOp ==
    [][(/\ MarkPaidStep
        /\ response'.id # 0
        /\ \A i \in DOMAIN pending_redemptions :
              pending_redemptions[i].id # response'.id)
       => /\ response'.resp = "ok"
          /\ pending_redemptions' = pending_redemptions
          /\ users' = users]_vars

\* mark_paid was answered with success for an id that none of the existing
\* records carries.
C13_Witness ==
    /\ AllFree
    /\ response.op = "mark_paid" /\ response.resp = "ok"
    /\ pending_redemptions # <<>>
    /\ \A i \in DOMAIN pending_redemptions :
          /\ pending_redemptions[i].id # response.id
          /\ pending_redemptions[i].status = "pending"

\* C14: the monthly reset is serialized against the requests in flight, so
\* that, when only earn, exchange and reset requests run, no account is ever
\* left with monthly_coin_redeemed > 0 and monthly_coin_earned = 0 by an
\* exchange that checked its balance before the reset and committed after it.
C14_ResetSerializedWithExchange ==
    \A i \in DOMAIN users :
        ~(users[i].monthly_coin_earned = 0 /\ users[i].monthly_coin_redeemed > 0)

\* C15: however requests that name the same unknown user_id interleave, there
\* is at most one account per user_id, and no earn, redeem or status request
\* (none of which can fail anywhere but in get_or_create_user) ends in an
\* error.
C15_ConcurrentFirstAccess ==
    /\ \A i, j \in DOMAIN users :
          (users[i].user_id # None /\ users[i].user_id = users[j].user_id) => i = j
    /\ response.op \in {"earn", "redeem", "status"} => response.resp # "error"

\* C16: every redemption record has coins_redeemed > 0.
C16_RecordCoinsPositive ==
    \A i \in DOMAIN pending_redemptions :
        pending_redemptions[i].coins_redeemed > 0

\* C17: an exchange whose transaction has committed is answered with success
\* whether or not the row can be appended to the CSV log, and the committed
\* ledger is left as it is.
C17_LogFailureStillSuccess ==
    [][\A p \in Procs :
          (proc[p].pc = "exchange_log" /\ Answers(p))
          => /\ response'.resp = "ok"
             /\ users' = users
             /\ pending_redemptions' = pending_redemptions]_vars

\* C18: when no redeem and no reset request runs, under every interleaving of
\* concurrent exchange, earn, mark_paid and expire_old requests, every
\* account's monthly_coin_redeemed equals the sum of coins_redeemed over the
\* records, of any status, that carry its user_id.
C18_RedeemedEqualsRecords ==
    \A i \in DOMAIN users :
        users[i].monthly_coin_redeemed
            = CoinsOfRecords(pending_redemptions, users[i].user_id)

\* An account has redeemed coins, and its record has left the pending status.
C18_Witness ==
    \E i \in DOMAIN users, j \in DOMAIN pending_redemptions :
        /\ users[i].monthly_coin_redeemed > 0
        /\ pending_redemptions[j].user_id = users[i].user_id
        /\ pending_redemptions[j].coins_redeemed > 0
        /\ pending_redemptions[j].status \in {"paid", "expired"}

\* The step is the UPDATE of a reset_monthly request.
ResetStep == \E p \in Procs : proc[p].pc = "reset_update" /\ Answers(p)

\* The step is the UPDATE of an expire_old request.
ExpireStep == \E p \in Procs : proc[p].pc = "expire_update" /\ Answers(p)

\* C19: a mark_paid request and the sweep of expire_old leave every account as
\* it is, and no step but the UPDATE of a reset lowers an account's
\* monthly_coin_redeemed: the coins of a record that expires stay counted
\* against its owner until the next reset.
C19_ExpiryKeepsReservation ==
    [][/\ (MarkPaidStep \/ ExpireStep) => users' = users
       /\ ~ResetStep
          => \A i \in DOMAIN users :
                /\ i \in DOMAIN users'
                /\ users'[i].user_id = users[i].user_id
                /\ users'[i].monthly_coin_redeemed >= users[i].monthly_coin_redeemed]_vars

\* A sweep was answered that expired a record of 50,000,000 coins, and the
\* owner's monthly_coin_redeemed still counts them.
C19_Witness ==
    /\ AllFree
    /\ response.op = "expire_old" /\ response.resp = "ok"
    /\ \E i \in DOMAIN users, j \in DOMAIN pending_redemptions :
          /\ pending_redemptions[j].user_id = users[i].user_id
          /\ pending_redemptions[j].status = "expired"
          /\ pending_redemptions[j].coins_redeemed = 50000000
          /\ users[i].monthly_coin_redeemed >= 50000000
====
